---- MODULE Spec2Model ----
(***************************************************************************)
(* Model of the two host-maintenance scripts:                              *)
(*   linux/backup/backup.py            (load_config, BackupManager, main)  *)
(*   linux/updateLinux/updateLinux.py  (SystemUpdater)                     *)
(*                                                                         *)
(* A file name is a sequence of tokens whose concatenation is the name     *)
(* (<<"a", ".tar", ".gz">> is "a.tar.gz"); a directory entry is a record   *)
(* [name, mtime, isdir]; a directory listing is a sequence of entries in   *)
(* the order os.listdir returns them.                                      *)
(***************************************************************************)
EXTENDS Integers, Sequences, FiniteSets, TLC

VARIABLES
    \* ---- cleanup_old_files called on its own (SpecPrune)
    pdir,       \* the directory, as its listing
    pext,       \* the extension argument
    pmax,       \* the max_files argument
    pcalls,     \* number of calls made so far
    pbefore,    \* the listing before the first call
    pafter1,    \* the listing after the first call
    pdeleted,   \* per call, the names removed by that call
    \* ---- load_config called on its own (SpecLoad)
    lresource,  \* the configuration resource at config_path
    lresult,    \* what load_config did with it (NotCalled before the call)
    \* ---- the backup script, run repeatedly against one backup root (SpecBackup)
    clock,      \* wall-clock time in seconds
    bdExists,   \* whether <backup_root>/backup_files exists
    backupDir,  \* the entries of <backup_root>/backup_files
    logDir,     \* the entries of <backup_root>/logs
    pc,         \* position of the current run
    inv,        \* the current invocation: the resource at config_path, the -s argument
    free,       \* free bytes shutil.disk_usage reported in the current run (NoFree before)
    spaceOk,    \* what check_disk_space returned: "unknown" before, "true", "false"
    srcOk,      \* what os.path.exists(source_dir) returned, likewise
    cfg,        \* the configuration load_config returned
    exitCode,   \* exit code of the current run (NoExit while it runs)
    calls,      \* the cleanup_old_files calls of the current run, in order
    newArchive, \* name of the archive the current run created (NoName if none)
    pre,        \* backup_files when the current run started
    runs,       \* number of runs started
    hist,       \* per run that exited 0: its max_backups and the name of its archive
    clean,      \* backup_files was empty at first, no failed run left a file in it
                \* and no pruner call logged an error
    \* ---- SystemUpdater._get_distribution called on its own (SpecDistro)
    osrelease,  \* /etc/os-release: whether it exists, the exception that
                \* opening it raises ("none" if it opens), what of it is not
                \* UTF-8 ("none", "byte" or "tail"), and its lines
    detected,   \* how _get_distribution ended: the value it returned or the
                \* exception that left it (NotDetected before the call)
    \* ---- the update script (SpecUpdate)
    distrib_id, \* self.distrib_id
    full_upgrade, \* self.full_upgrade
    wantClean,  \* self.clean
    upos,       \* position of run: "start", "running", "returned"
    todo,       \* the commands run has still to issue if none fails
    issued,     \* the commands issued so far, in order
    outcomes,   \* how each issued command ended: "ok", "nonzero", "oserror"
    uexit       \* the exit code of the script (NoExit while it runs)

pruneVars == <<pdir, pext, pmax, pcalls, pbefore, pafter1, pdeleted>>
loadVars == <<lresource, lresult>>
backupVars == <<clock, bdExists, backupDir, logDir, pc, inv, free, spaceOk, srcOk, cfg, exitCode, calls,
                newArchive, pre, runs, hist, clean>>

distroVars == <<osrelease, detected>>
updateVars == <<distrib_id, full_upgrade, wantClean, upos, todo, issued, outcomes, uexit>>

vars == <<pruneVars, loadVars, backupVars, distroVars, updateVars>>

----------------------------------------------------------------------------
\* The values the variables of one script keep while the other parts run

PruneIdle ==
    /\ pdir = << >>
    /\ pext = << >>
    /\ pmax = 0
    /\ pcalls = 0
    /\ pbefore = << >>
    /\ pafter1 = << >>
    /\ pdeleted = << >>

NotCalled == [ok |-> FALSE, error |-> "not called", message |-> ""]

LoadIdle ==
    /\ lresource = [readable |-> FALSE, doc |-> [type |-> "none"]]
    /\ lresult = NotCalled

NoExit == 0 - 1
NoFree == 0 - 1
NoName == << >>
NoInv == [resource |-> [readable |-> FALSE, doc |-> [type |-> "none"]],
          source |-> ""]

BackupIdle ==
    /\ clock = 0
    /\ bdExists = FALSE
    /\ backupDir = {}
    /\ logDir = {}
    /\ pc = "idle"
    /\ inv = NoInv
    /\ free = NoFree
    /\ spaceOk = "unknown"
    /\ srcOk = "unknown"
    /\ cfg = << >>
    /\ exitCode = NoExit
    /\ calls = << >>
    /\ newArchive = NoName
    /\ pre = {}
    /\ runs = 0
    /\ hist = << >>
    /\ clean = TRUE

NotDetected == <<"?">>

NoFile ==
    [exists |-> FALSE, error |-> "none", undecodable |-> "none", lines |-> << >>]

DistroIdle ==
    /\ osrelease = NoFile
    /\ detected = NotDetected

UpdateIdle ==
    /\ distrib_id = "unknown"
    /\ full_upgrade = FALSE
    /\ wantClean = FALSE
    /\ upos = "start"
    /\ todo = << >>
    /\ issued = << >>
    /\ outcomes = << >>
    /\ uexit = NoExit

----------------------------------------------------------------------------
\* Bounds of the model

MaxMtime == 2
MaxListing == 3
MaxClock == 3
MaxRuns == 2
MaxKeep == 2
MaxValueLen == 3

----------------------------------------------------------------------------
\* Python helpers

\* s[:stop] for a Python list s
PySliceTo(s, stop) ==
    LET n == Len(s)
        k == IF stop < 0
             THEN (IF stop + n < 0 THEN 0 ELSE stop + n)
             ELSE (IF stop > n THEN n ELSE stop)
    IN  SubSeq(s, 1, k)

\* name.endswith(suffix)
endswith(name, suffix) ==
    /\ Len(suffix) <= Len(name)
    /\ SubSeq(name, Len(name) - Len(suffix) + 1, Len(name)) = suffix

\* the place where sorted() puts e into the already sorted t: after every
\* element whose key is not greater (the sort is stable)
InsertByMtime(e, t) ==
    LET k == Cardinality({i \in 1..Len(t) : t[i].mtime <= e.mtime})
    IN  SubSeq(t, 1, k) \o <<e>> \o SubSeq(t, k + 1, Len(t))

RECURSIVE sorted(_)
\* sorted(files, key=os.path.getmtime)
sorted(s) ==
    IF s = << >> THEN << >>
    ELSE InsertByMtime(s[Len(s)], sorted(SubSeq(s, 1, Len(s) - 1)))

RemoveEntry(listing, e) ==
    LET Keep(x) == x /= e IN SelectSeq(listing, Keep)

RECURSIVE RemoveLoop(_, _, _)
\* for old_file in ...: os.remove(old_file); os.remove raises on a directory
RemoveLoop(listing, olds, deleted) ==
    IF olds = << >> THEN [listing |-> listing, deleted |-> deleted, error |-> FALSE]
    ELSE IF Head(olds).isdir
         THEN [listing |-> listing, deleted |-> deleted, error |-> TRUE]
         ELSE RemoveLoop(RemoveEntry(listing, Head(olds)), Tail(olds),
                         Append(deleted, Head(olds).name))

\* the slice of the sorted files that the loop removes
OldFiles(files, max_files) == PySliceTo(files, 0 - max_files)

\* cleanup_old_files without its try/except: the exception leaves the call
CleanupRaisesUncaught(error) == error

\* whether an exception raised inside cleanup_old_files leaves it
CleanupRaises(error) == FALSE

\* BackupManager.cleanup_old_files(directory, extension, max_files).
\* listable: whether os.listdir(directory) succeeds.
\* Result: the listing afterwards, the names removed in order, whether an
\* exception was caught and logged, and whether one left the call.
cleanup_old_files(listing, listable, extension, max_files) ==
    LET Matches(e) == endswith(e.name, extension)
        files == sorted(SelectSeq(listing, Matches))
        res ==
            IF ~listable
            THEN [listing |-> listing, deleted |-> << >>, error |-> TRUE]
            ELSE IF Len(files) > max_files
            THEN RemoveLoop(listing, OldFiles(files, max_files), << >>)
            ELSE [listing |-> listing, deleted |-> << >>, error |-> FALSE]
    IN  [listing |-> res.listing, deleted |-> res.deleted, error |-> res.error,
         raised |-> CleanupRaises(res.error)]

----------------------------------------------------------------------------
\* load_config

\* the value None, and the values Python takes for false in "not source_dir"
None == "<None>"
Falsy(v) == v = None \/ v = ""

\* the required fields with max_backups forgotten
required_fields_without_max == <<"backup_root", "min_free_space_gb">>

required_fields == <<"backup_root", "min_free_space_gb", "max_backups">>

\* config.setdefault(key, value) on a dict
setdefault(config, key, value) ==
    IF key \in DOMAIN config THEN config ELSE config @@ (key :> value)

\* "field not in config" for a parsed document: a dict is asked for a key,
\* a list for an item, a string for a substring (items: the field names
\* found in it); None raises TypeError
FieldIn(doc, field) ==
    IF doc.type = "dict" THEN field \in DOMAIN doc.val
    ELSE field \in doc.items

Failed(msg) == [ok |-> FALSE, error |-> "RuntimeError", message |-> msg]

\* load_config(config_path), given the resource found at config_path:
\* [readable, doc] with doc the document yaml.safe_load returns, one of
\* [type |-> "dict", val |-> a function on the keys present],
\* [type |-> "list", items |-> a set of strings], likewise "str",
\* [type |-> "none"].
\* Every exception inside is re-raised as RuntimeError.
load_config(resource) ==
    IF ~resource.readable THEN Failed("open or parse")
    ELSE LET doc == resource.doc IN
         IF doc.type = "none" THEN Failed("TypeError")
         ELSE IF \E i \in 1..Len(required_fields) : ~FieldIn(doc, required_fields[i])
         THEN Failed("missing field")
         ELSE IF doc.type /= "dict" THEN Failed("AttributeError")
         ELSE [ok |-> TRUE,
               config |-> setdefault(setdefault(setdefault(doc.val,
                              "source_dir", None), "log_level", "INFO"), "max_logs", 5)]

----------------------------------------------------------------------------
\* SpecLoad: load_config on bounded configuration resources

ConfigKeys == {"backup_root", "min_free_space_gb", "max_backups",
               "source_dir", "log_level", "max_logs"}

\* the values a key takes in the resources of SpecLoad
LoadValues(key) ==
    CASE key = "backup_root" -> {"/b"}
      [] key = "min_free_space_gb" -> {1}
      [] key = "max_backups" -> {0 - 1, 2}
      [] key = "source_dir" -> {"/src", None}
      [] key = "log_level" -> {"DEBUG"}
      [] key = "max_logs" -> {3}

RECURSIVE Dicts(_)
\* every dict whose keys are among keys, each key with one of its values
Dicts(keys) ==
    IF keys = {} THEN { << >> }
    ELSE LET k == CHOOSE x \in keys : TRUE
             rest == Dicts(keys \ {k})
         IN  rest \cup { d @@ (k :> v) : d \in rest, v \in LoadValues(k) }

LoadResources ==
    { [readable |-> TRUE, doc |-> [type |-> "dict", val |-> f]] : f \in Dicts(ConfigKeys) }
    \cup { [readable |-> TRUE, doc |-> [type |-> t, items |-> its]] :
              t \in {"list", "str"},
              its \in SUBSET {"backup_root", "min_free_space_gb", "max_backups"} }
    \cup { [readable |-> TRUE, doc |-> [type |-> "none"]],
           [readable |-> FALSE, doc |-> [type |-> "none"]] }

InitLoad ==
    /\ lresource \in LoadResources
    /\ lresult = NotCalled
    /\ PruneIdle
    /\ BackupIdle
    /\ DistroIdle
    /\ UpdateIdle

CallLoadConfig ==
    /\ lresult = NotCalled
    /\ lresult' = load_config(lresource)
    /\ UNCHANGED lresource
    /\ UNCHANGED <<pruneVars, backupVars, distroVars, updateVars>>

NextLoad == CallLoadConfig

SpecLoad == InitLoad /\ [][NextLoad]_vars

----------------------------------------------------------------------------
\* SpecPrune: cleanup_old_files on bounded directories, called twice

TarGz == <<".tar", ".gz">>
DotLog == <<".log">>

PruneNames == { <<"a">> \o TarGz, <<"b">> \o TarGz, <<"c">> \o TarGz, <<"d">> \o DotLog }
PruneSuffixes == { TarGz, DotLog, <<".gz">>, << >> }
PruneMaxFiles == (0 - 2) .. 3
Mtimes == 0 .. MaxMtime

Entries(names) == [name : names, mtime : Mtimes, isdir : BOOLEAN]

\* listings: sequences of entries with pairwise different names; only the
\* entry named c may be a directory
IsListing(s) ==
    /\ \A i, j \in 1..Len(s) : i /= j => s[i].name /= s[j].name
    /\ \A i \in 1..Len(s) : s[i].isdir => s[i].name = <<"c">> \o TarGz

RECURSIVE SeqsUpTo(_, _)
SeqsUpTo(S, n) ==
    IF n = 0 THEN { << >> }
    ELSE LET shorter == SeqsUpTo(S, n - 1)
         IN  shorter \cup { Append(s, x) : s \in {t \in shorter : Len(t) = n - 1}, x \in S }

PruneListings == { s \in SeqsUpTo(Entries(PruneNames), MaxListing) : IsListing(s) }

Matching(s, ext) == LET M(e) == endswith(e.name, ext) IN SelectSeq(s, M)

InitPrune ==
    /\ pdir \in PruneListings
    /\ pext \in PruneSuffixes
    /\ pmax \in PruneMaxFiles
    /\ pcalls = 0
    /\ pbefore = pdir
    /\ pafter1 = pdir
    /\ pdeleted = << >>
    /\ LoadIdle
    /\ BackupIdle
    /\ DistroIdle
    /\ UpdateIdle

CallCleanup ==
    /\ pcalls < 2
    /\ LET r == cleanup_old_files(pdir, TRUE, pext, pmax)
       IN  /\ pdir' = r.listing
           /\ pdeleted' = Append(pdeleted, r.deleted)
           /\ pafter1' = IF pcalls = 0 THEN r.listing ELSE pafter1
    /\ pcalls' = pcalls + 1
    /\ UNCHANGED <<pext, pmax, pbefore>>
    /\ UNCHANGED <<loadVars, backupVars, distroVars, updateVars>>

NextPrune == CallCleanup

SpecPrune == InitPrune /\ [][NextPrune]_vars

----------------------------------------------------------------------------
\* The backup script: main, BackupManager.__init__, run_backup

GiB == 1024 * 1024 * 1024

\* a guard that never refuses
check_disk_space_always(stat_free, min_free_space_gb) == TRUE

\* BackupManager.check_disk_space, given the free bytes shutil.disk_usage
\* reports. free_space_gb = free / GiB is a real number; for a whole number
\* of GiB as threshold, free / GiB < threshold iff free \div GiB < threshold.
check_disk_space(stat_free, min_free_space_gb) ==
    ~((stat_free \div GiB) < min_free_space_gb)

SourcePath == "/data/src"

\* os.path.basename on the paths of the model
basename(path) ==
    CASE path = "/data/src" -> "src"
      [] path = "/data/src/" -> ""
      [] OTHER -> path

\* datetime.now().strftime("%Y%m%d_%H%M%S"): one text per second
strftime(t) == ToString(t)

\* backup_name: backup_<basename>_<timestamp>.tar.gz
backup_name(source_dir, t) ==
    <<"backup_", basename(source_dir), "_", strftime(t), ".tar", ".gz">>

LogFile == <<"backup", ".log">>

\* a file written (created or overwritten) in a directory at time t
WriteFile(dir, name, t) ==
    {e \in dir : e.name /= name} \cup {[name |-> name, mtime |-> t, isdir |-> FALSE]}

\* the orders in which os.listdir may return the entries of a directory
listdir(dir) ==
    LET n == Cardinality(dir)
    IN  { f \in [1..n -> dir] : \A i, j \in 1..n : i /= j => f[i] /= f[j] }

Range(s) == { s[i] : i \in 1..Len(s) }

\* what a run is invoked with
Doc(k) == [backup_root |-> "/b", min_free_space_gb |-> 1, max_backups |-> k,
           source_dir |-> SourcePath]
NoSourceDoc == [backup_root |-> "/b", min_free_space_gb |-> 1, max_backups |-> 1]
BadDoc == [backup_root |-> "/b", min_free_space_gb |-> 1, source_dir |-> SourcePath]

AsResource(d) == [readable |-> TRUE, doc |-> [type |-> "dict", val |-> d]]

BackupCounts == (0 - 1) .. MaxKeep

Invocations ==
    { [resource |-> AsResource(Doc(k)), source |-> None] : k \in BackupCounts }
    \cup { [resource |-> AsResource(Doc(k) @@ [max_logs |-> 1]), source |-> None] :
             k \in {1} }
    \cup { [resource |-> AsResource(NoSourceDoc), source |-> None],
           [resource |-> AsResource(NoSourceDoc), source |-> SourcePath],
           [resource |-> AsResource(BadDoc), source |-> None] }

FreeValues == {GiB - 1, GiB}

PriorEntry(n, t, d) == [name |-> n, mtime |-> t, isdir |-> d]
OldArchive == <<"old", ".tar", ".gz">>

\* what backup_files holds before the first run
PriorBackupDirs ==
    { {} }
    \cup { {PriorEntry(OldArchive, t, FALSE)} : t \in {0, MaxClock + 1} }
    \cup { {PriorEntry(OldArchive, 0, TRUE)} }

\* what logs holds before the first run
PriorLogDirs ==
    { {}, {PriorEntry(<<"app", ".log">>, 0, FALSE)} }

InitBackup ==
    /\ clock = 0
    /\ backupDir \in PriorBackupDirs
    /\ bdExists = (backupDir /= {})
    /\ logDir \in PriorLogDirs
    /\ pc = "idle"
    /\ inv = NoInv
    /\ free = NoFree
    /\ spaceOk = "unknown"
    /\ srcOk = "unknown"
    /\ cfg = << >>
    /\ exitCode = NoExit
    /\ calls = << >>
    /\ newArchive = NoName
    /\ pre = backupDir
    /\ runs = 0
    /\ hist = << >>
    /\ clean = (backupDir = {})
    /\ PruneIdle
    /\ LoadIdle
    /\ DistroIdle
    /\ UpdateIdle

\* the operator starts the script: command line, and what the host is like
Invoke ==
    /\ pc \in {"idle", "Done", "Error"}
    /\ runs < MaxRuns
    /\ inv' \in Invocations
    /\ free' = NoFree
    /\ spaceOk' = "unknown"
    /\ srcOk' = "unknown"
    /\ \E t \in {clock, clock + 1} : t <= MaxClock /\ clock' = t
    /\ pc' = "main"
    /\ runs' = runs + 1
    /\ exitCode' = NoExit
    /\ calls' = << >>
    /\ newArchive' = NoName
    /\ pre' = backupDir
    /\ cfg' = << >>
    /\ UNCHANGED <<bdExists, backupDir, logDir, hist, clean>>
    /\ UNCHANGED <<pruneVars, loadVars, distroVars, updateVars>>

\* __main__ up to the call of run_backup: load_config, the -s override, the
\* source_dir test, BackupManager(config) with setup_logging, and the first
\* log line of run_backup
Main ==
    /\ pc = "main"
    /\ LET r == load_config(inv.resource)
           c == IF r.ok
                THEN (IF ~Falsy(inv.source)
                      THEN [r.config EXCEPT !["source_dir"] = inv.source]
                      ELSE r.config)
                ELSE << >>
       IN  IF ~r.ok \/ Falsy(c["source_dir"])
           THEN /\ pc' = "Error"
                /\ exitCode' = 1
                /\ UNCHANGED <<cfg, logDir>>
           ELSE /\ pc' = "Init"
                /\ cfg' = c
                /\ logDir' = WriteFile(logDir, LogFile, clock)
                /\ UNCHANGED exitCode
    /\ UNCHANGED <<clock, bdExists, backupDir, inv, free, spaceOk, srcOk, calls,
                   newArchive, pre, runs, hist, clean>>
    /\ UNCHANGED <<pruneVars, loadVars, distroVars, updateVars>>

\* the except clause of run_backup: log, return 1
Abort ==
    /\ pc' = "Error"
    /\ exitCode' = 1

\* "if not self.check_disk_space(): raise", for the free bytes the volume has
CheckSpace ==
    /\ pc = "Init"
    /\ \E f \in FreeValues :
          LET ok == check_disk_space(f, cfg["min_free_space_gb"])
          IN  /\ free' = f
              /\ spaceOk' = (IF ok THEN "true" ELSE "false")
              /\ IF ok THEN pc' = "SpaceChecked" /\ UNCHANGED exitCode ELSE Abort
    /\ UNCHANGED <<clock, bdExists, backupDir, logDir, inv, srcOk, cfg, calls,
                   newArchive, pre, runs, hist, clean>>
    /\ UNCHANGED <<pruneVars, loadVars, distroVars, updateVars>>

\* "if not os.path.exists(source_dir): raise", the source being there or not
ValidateSource ==
    /\ pc = "SpaceChecked"
    /\ \E exists \in BOOLEAN :
          /\ srcOk' = (IF exists THEN "true" ELSE "false")
          /\ IF exists THEN pc' = "SourceValidated" /\ UNCHANGED exitCode ELSE Abort
    /\ UNCHANGED <<clock, bdExists, backupDir, logDir, inv, free, spaceOk, cfg, calls,
                   newArchive, pre, runs, hist, clean>>
    /\ UNCHANGED <<pruneVars, loadVars, distroVars, updateVars>>

EnsureDir ==
    /\ pc = "SourceValidated"
    /\ bdExists' = TRUE
    /\ pc' = "DirEnsured"
    /\ UNCHANGED <<clock, backupDir, logDir, inv, free, spaceOk, srcOk, cfg, exitCode,
                   calls, newArchive, pre, runs, hist, clean>>
    /\ UNCHANGED <<pruneVars, loadVars, distroVars, updateVars>>

\* shutil.make_archive succeeds
Archive ==
    /\ pc = "DirEnsured"
    /\ LET name == backup_name(cfg["source_dir"], clock)
       IN  /\ backupDir' = WriteFile(backupDir, name, clock)
           /\ newArchive' = name
    /\ pc' = "Archived"
    /\ UNCHANGED <<clock, bdExists, logDir, inv, free, spaceOk, srcOk, cfg, exitCode,
                   calls, pre, runs, hist, clean>>
    /\ UNCHANGED <<pruneVars, loadVars, distroVars, updateVars>>

\* shutil.make_archive raises, before or after it opened the archive file
ArchiveFails ==
    /\ pc = "DirEnsured"
    /\ \E partial \in BOOLEAN :
          IF partial
          THEN /\ backupDir' = WriteFile(backupDir, backup_name(cfg["source_dir"], clock), clock)
               /\ clean' = FALSE
          ELSE UNCHANGED <<backupDir, clean>>
    /\ Abort
    /\ UNCHANGED <<clock, bdExists, logDir, inv, free, spaceOk, srcOk, cfg, calls,
                   newArchive, pre, runs, hist>>
    /\ UNCHANGED <<pruneVars, loadVars, distroVars, updateVars>>

Call(dir, ext, max, r) ==
    [dir |-> dir, extension |-> ext, max_files |-> max, deleted |-> r.deleted, error |-> r.error]

\* self.cleanup_old_files(self.backup_dir, '.tar.gz', self.config['max_backups'])
PruneBackups ==
    /\ pc = "Archived"
    /\ \E listing \in listdir(backupDir), listable \in BOOLEAN :
          LET r == cleanup_old_files(listing, listable, TarGz, cfg["max_backups"])
          IN  /\ backupDir' = Range(r.listing)
              /\ calls' = Append(calls, Call("backup_files", TarGz, cfg["max_backups"], r))
              /\ IF r.raised THEN Abort ELSE pc' = "PrunedBackups" /\ UNCHANGED exitCode
    /\ UNCHANGED <<clock, bdExists, logDir, inv, free, spaceOk, srcOk, cfg, newArchive,
                   pre, runs, hist, clean>>
    /\ UNCHANGED <<pruneVars, loadVars, distroVars, updateVars>>

\* self.cleanup_old_files(self.log_dir, '.log', self.config['max_logs'])
PruneLogs ==
    /\ pc = "PrunedBackups"
    /\ \E listing \in listdir(logDir), listable \in BOOLEAN :
          LET r == cleanup_old_files(listing, listable, DotLog, cfg["max_logs"])
          IN  /\ logDir' = Range(r.listing)
              /\ calls' = Append(calls, Call("logs", DotLog, cfg["max_logs"], r))
              /\ IF r.raised THEN Abort ELSE pc' = "Pruned" /\ UNCHANGED exitCode
    /\ UNCHANGED <<clock, bdExists, backupDir, inv, free, spaceOk, srcOk, cfg,
                   newArchive, pre, runs, hist, clean>>
    /\ UNCHANGED <<pruneVars, loadVars, distroVars, updateVars>>

\* the last log line and "return 0"
Finish ==
    /\ pc = "Pruned"
    /\ pc' = "Done"
    /\ exitCode' = 0
    /\ hist' = Append(hist, [k |-> cfg["max_backups"], name |-> newArchive])
    /\ clean' = (clean /\ \A i \in 1..Len(calls) : ~calls[i].error)
    /\ UNCHANGED <<clock, bdExists, backupDir, logDir, inv, free, spaceOk, srcOk, cfg,
                   calls, newArchive, pre, runs>>
    /\ UNCHANGED <<pruneVars, loadVars, distroVars, updateVars>>

NextBackup ==
    \/ Invoke
    \/ Main
    \/ CheckSpace
    \/ ValidateSource
    \/ EnsureDir
    \/ Archive
    \/ ArchiveFails
    \/ PruneBackups
    \/ PruneLogs
    \/ Finish

SpecBackup == InitBackup /\ [][NextBackup]_vars

----------------------------------------------------------------------------
\* SystemUpdater._get_distribution. A text is a sequence of characters.

\* the characters str.strip() removes: those for which str.isspace() holds.
\* A character that has no escape of its own here is written as its Python
\* escape ("\\x0b" is the one character U+000B).
Whitespace ==
    {"\t", "\n", "\\x0b", "\f", "\r", "\\x1c", "\\x1d", "\\x1e", "\\x1f", " ",
     "\\x85", "\\xa0", "\\u1680", "\\u2000", "\\u2001", "\\u2002", "\\u2003",
     "\\u2004", "\\u2005", "\\u2006", "\\u2007", "\\u2008", "\\u2009", "\\u200a",
     "\\u2028", "\\u2029", "\\u202f", "\\u205f", "\\u3000"}

RECURSIVE lstrip(_, _)
lstrip(s, chars) ==
    IF s /= << >> /\ Head(s) \in chars THEN lstrip(Tail(s), chars) ELSE s

RECURSIVE rstrip(_, _)
rstrip(s, chars) ==
    IF s /= << >> /\ s[Len(s)] \in chars THEN rstrip(SubSeq(s, 1, Len(s) - 1), chars) ELSE s

\* str.strip(): whitespace off both ends; str.strip(chars)
strip(s, chars) == lstrip(rstrip(s, chars), chars)

\* line.startswith(prefix)
startswith(line, prefix) ==
    Len(prefix) <= Len(line) /\ SubSeq(line, 1, Len(prefix)) = prefix

\* first index of character c in s, 0 if there is none
IndexOf(s, c) ==
    IF \E i \in 1..Len(s) : s[i] = c
    THEN CHOOSE i \in 1..Len(s) : s[i] = c /\ \A j \in 1..(i - 1) : s[j] /= c
    ELSE 0

\* s.split('=')[1], for s that holds a '='
split_1(s) ==
    LET i == IndexOf(s, "=")
        rest == SubSeq(s, i + 1, Len(s))
        j == IndexOf(rest, "=")
    IN  IF j = 0 THEN rest ELSE SubSeq(rest, 1, j - 1)

\* .strip('"')
strip_quotes(s) == strip(s, {"\""})

IdPrefix == <<"I", "D", "=">>
Unknown == <<"u", "n", "k", "n", "o", "w", "n">>

RECURSIVE FirstIdLine(_)
\* the first line that starts with ID=, << >> if there is none
FirstIdLine(lines) ==
    IF lines = << >> THEN << >>
    ELSE IF startswith(Head(lines), IdPrefix) THEN Head(lines)
    ELSE FirstIdLine(Tail(lines))

\* what open('/etc/os-release') raises for a path that exists: it is a
\* directory, or a file the process may not read
OpenErrors == {"IsADirectoryError", "PermissionError"}

\* what of an opened file is not UTF-8. "byte": a byte that no UTF-8 text
\* holds; the first read decodes the whole of a file this small, so it raises
\* before any line is seen, wherever the byte stands. "tail": the file ends
\* in the first bytes of a multi-byte character; the decoder keeps them back
\* and raises only at the read that meets the end of the file.
Undecodable == {"byte", "tail"}

\* the call left by an exception: nothing in _get_distribution catches it
Raise(exc) == <<"raise", exc>>
Raises == { Raise(exc) : exc \in OpenErrors \cup {"UnicodeDecodeError"} }

\* the line is complete: it ends with the newline
Complete(line) == line /= << >> /\ line[Len(line)] = "\n"

RECURSIVE ReadLines(_, _)
\* the loop over the lines of the opened file: every line before the end of
\* the file is complete and comes out of what is already decoded; the first
\* one that starts with ID= ends the call. The read that meets the end of the
\* file (for a last line without newline, or after the last line) raises
\* when the file ends in an incomplete character.
ReadLines(lines, tail) ==
    IF lines = << >>
    THEN IF tail THEN Raise("UnicodeDecodeError") ELSE Unknown
    ELSE LET line == Head(lines)
         IN  IF tail /\ ~Complete(line) THEN Raise("UnicodeDecodeError")
             ELSE IF startswith(line, IdPrefix)
                  THEN strip_quotes(split_1(strip(line, Whitespace)))
                  ELSE ReadLines(Tail(lines), tail)

\* SystemUpdater._get_distribution(), given /etc/os-release
get_distribution(file) ==
    IF ~file.exists THEN Unknown
    ELSE IF file.error /= "none" THEN Raise(file.error)
    ELSE IF file.undecodable = "byte" THEN Raise("UnicodeDecodeError")
    ELSE ReadLines(file.lines, file.undecodable = "tail")

----------------------------------------------------------------------------
\* SpecDistro: _get_distribution on bounded contents of /etc/os-release

ValueChars == {"u", "U", "\"", "'", "=", " ", "\f"}
Values == SeqsUpTo(ValueChars, MaxValueLen)

IdLine(v) == IdPrefix \o v \o <<"\n">>
OtherLines == { <<"N", "=", "U", "\n">>,
                <<"I", "D", "_", "L", "=", "u", "\n">>,
                <<" ", "I", "D", "=", "u", "\n">> }

OsReleaseLines ==
    { << >> }
    \cup { <<o>> : o \in OtherLines }
    \cup { <<IdLine(v)>> : v \in Values }
    \cup { <<IdPrefix \o v>> : v \in Values }
    \cup { <<o, IdLine(v)>> : o \in OtherLines, v \in Values }
    \cup { <<IdLine(v), IdLine(<<"U">>)>> : v \in Values }

InitDistro ==
    /\ \/ osrelease = NoFile
       \/ \E ls \in OsReleaseLines : \E u \in {"none"} \cup Undecodable :
             osrelease = [exists |-> TRUE, error |-> "none",
                          undecodable |-> u, lines |-> ls]
       \/ osrelease = [exists |-> TRUE, error |-> "IsADirectoryError",
                       undecodable |-> "none", lines |-> << >>]
       \/ \E ls \in OsReleaseLines :
             osrelease = [exists |-> TRUE, error |-> "PermissionError",
                          undecodable |-> "none", lines |-> ls]
    /\ detected = NotDetected
    /\ PruneIdle
    /\ LoadIdle
    /\ BackupIdle
    /\ UpdateIdle

CallGetDistribution ==
    /\ detected = NotDetected
    /\ detected' = get_distribution(osrelease)
    /\ UNCHANGED osrelease
    /\ UNCHANGED <<pruneVars, loadVars, backupVars, updateVars>>

NextDistro == CallGetDistribution

SpecDistro == InitDistro /\ [][NextDistro]_vars

----------------------------------------------------------------------------
\* The update script: SystemUpdater.run and the commands it issues

\* _apt_update
apt_update == << <<"apt", "update">> >>

\* an _apt_upgrade that ignores --full
apt_upgrade_plain(full) == << <<"apt", "upgrade", "-y">> >>

\* _apt_upgrade
apt_upgrade(full) ==
    IF full THEN << <<"apt", "full-upgrade", "-y">> >>
    ELSE << <<"apt", "upgrade", "-y">> >>

\* _apt_clean
apt_clean == << <<"apt", "autoremove", "-y">>,
                <<"apt", "clean">>,
                <<"rm", "-rf", "/var/lib/apt/lists/*">> >>

\* _dnf_upgrade: filter(None, commands)
dnf_upgrade(cl) ==
    << <<"dnf", "upgrade", "-y">> >>
    \o (IF cl THEN << <<"dnf", "autoremove", "-y">> >> ELSE << >>)
    \o (IF cl THEN << <<"dnf", "clean", "all">> >> ELSE << >>)

\* _yum_upgrade: filter(None, commands)
yum_upgrade(cl) ==
    << <<"yum", "update", "-y">> >>
    \o (IF cl THEN << <<"yum", "clean", "all">> >> ELSE << >>)

\* a first branch of run that also takes arch
AptIdsWithArch == {"debian", "ubuntu", "linuxmint", "arch"}

\* the tuples run tests self.distrib_id against
AptIds == {"debian", "ubuntu", "linuxmint"}
RpmIds == {"fedora", "centos", "rhel"}

\* the commands run issues for an id, none failing; each method returns
\* False at its first failing command and run returns False at the first
\* method that does. In the second branch, 'fedora' in self.distrib_id holds
\* for "fedora" alone.
run_commands(id, full, cl) ==
    IF id \in AptIds
    THEN apt_update \o apt_upgrade(full) \o (IF cl THEN apt_clean ELSE << >>)
    ELSE IF id = "fedora" THEN dnf_upgrade(cl) ELSE yum_upgrade(cl)

DistribIds == {"debian", "ubuntu", "linuxmint", "fedora", "centos", "rhel",
               "unknown", "arch", "Ubuntu"}

InitUpdate ==
    /\ distrib_id \in DistribIds
    /\ full_upgrade \in BOOLEAN
    /\ wantClean \in BOOLEAN
    /\ upos = "start"
    /\ todo = << >>
    /\ issued = << >>
    /\ outcomes = << >>
    /\ uexit = NoExit
    /\ PruneIdle
    /\ LoadIdle
    /\ BackupIdle
    /\ DistroIdle

\* run: the branch on self.distrib_id
Dispatch ==
    /\ upos = "start"
    /\ IF distrib_id \in AptIds \cup RpmIds
       THEN /\ todo' = run_commands(distrib_id, full_upgrade, wantClean)
            /\ upos' = "running"
            /\ UNCHANGED uexit
       ELSE /\ upos' = "returned"
            /\ uexit' = 1
            /\ UNCHANGED todo
    /\ UNCHANGED <<distrib_id, full_upgrade, wantClean, issued, outcomes>>
    /\ UNCHANGED <<pruneVars, loadVars, backupVars, distroVars>>

\* _run_command(cmd): the command exits 0, exits non-zero
\* (CalledProcessError, caught in _run_command), or cannot be started
\* (OSError, caught in run)
RunCommand ==
    /\ upos = "running"
    /\ todo /= << >>
    /\ \E outcome \in {"ok", "nonzero", "oserror"} :
          /\ issued' = Append(issued, Head(todo))
          /\ outcomes' = Append(outcomes, outcome)
          /\ IF outcome = "ok"
             THEN todo' = Tail(todo) /\ UNCHANGED <<upos, uexit>>
             ELSE upos' = "returned" /\ uexit' = 1 /\ UNCHANGED todo
    /\ UNCHANGED <<distrib_id, full_upgrade, wantClean>>
    /\ UNCHANGED <<pruneVars, loadVars, backupVars, distroVars>>

\* "return True" and sys.exit(0)
ReturnTrue ==
    /\ upos = "running"
    /\ todo = << >>
    /\ upos' = "returned"
    /\ uexit' = 0
    /\ UNCHANGED <<distrib_id, full_upgrade, wantClean, todo, issued, outcomes>>
    /\ UNCHANGED <<pruneVars, loadVars, backupVars, distroVars>>

NextUpdate ==
    \/ Dispatch
    \/ RunCommand
    \/ ReturnTrue

SpecUpdate == InitUpdate /\ [][NextUpdate]_vars

----------------------------------------------------------------------------
\* Properties of cleanup_old_files (SpecPrune)

Mtime(listing, name) == (CHOOSE e \in Range(listing) : e.name = name).mtime

\* the claim's case: the call finds more than N >= 0 regular files ending
\* with the suffix
MoreThanN ==
    /\ pmax >= 0
    /\ Len(Matching(pbefore, pext)) > pmax
    /\ \A e \in Range(Matching(pbefore, pext)) : ~e.isdir

\* C2: one call of cleanup_old_files that finds more than N >= 0 files
\* ending with the suffix leaves exactly N of them, the N most recently
\* modified ones, and removes nothing else.
C2_ExactlyNRemain ==
    (pcalls >= 1 /\ MoreThanN) =>
        /\ Len(Matching(pafter1, pext)) = pmax
        /\ \A kept \in Range(Matching(pafter1, pext)) :
              \A gone \in Range(pdeleted[1]) : Mtime(pbefore, gone) <= kept.mtime
        /\ Range(pafter1) = {e \in Range(pbefore) : e.name \notin Range(pdeleted[1])}

\* C3: a second call of cleanup_old_files with the same arguments and no
\* file added in between deletes nothing, for any max_files.
C3_SecondCallDeletesNothing ==
    pcalls = 2 => (pdeleted[2] = << >> /\ pdir = pafter1)

----------------------------------------------------------------------------
\* Properties of load_config (SpecLoad)

LacksRequired(resource) ==
    \/ ~resource.readable
    \/ resource.doc.type /= "dict"
    \/ \E k \in {"backup_root", "min_free_space_gb", "max_backups"} :
          k \notin DOMAIN resource.doc.val

Default(key) ==
    CASE key = "source_dir" -> None
      [] key = "log_level" -> "INFO"
      [] key = "max_logs" -> 5

\* C5: a resource that lacks one of backup_root, min_free_space_gb,
\* max_backups, or cannot be read, makes load_config fail and return no
\* configuration; a configuration it returns has the three required keys
\* with the resource's values, and source_dir, log_level and max_logs with
\* the resource's values or, absent there, None, "INFO" and 5.
C5_LoadConfigAllOrNothing ==
    lresult /= NotCalled =>
        /\ LacksRequired(lresource) =>
              (~lresult.ok /\ lresult.error = "RuntimeError" /\ "config" \notin DOMAIN lresult)
        /\ lresult.ok =>
              /\ ~LacksRequired(lresource)
              /\ DOMAIN lresult.config = ConfigKeys
              /\ \A k \in DOMAIN lresource.doc.val : lresult.config[k] = lresource.doc.val[k]
              /\ \A k \in ConfigKeys \ DOMAIN lresource.doc.val :
                    lresult.config[k] = Default(k)

\* a dict that has everything but max_backups was refused
C5_Witness ==
    /\ lresult /= NotCalled
    /\ ~lresult.ok
    /\ lresource.readable
    /\ lresource.doc.type = "dict"
    /\ DOMAIN lresource.doc.val = ConfigKeys \ {"max_backups"}

----------------------------------------------------------------------------
\* Properties of the backup script (SpecBackup)

ArchivesIn(dir) == { e.name : e \in {x \in dir : endswith(x.name, TarGz)} }

\* C1: after N runs that exited 0, all with max_backups = k, 0 <= k < N,
\* started on an empty backup_files, each at a second of its own, with no
\* pruner error logged and no file left by a failed run, backup_files holds
\* exactly the k archives created last.
C1_ExactlyKNewestRemain ==
    LET N == Len(hist) IN
    ( /\ pc = "Done"
      /\ clean
      /\ N > 0
      /\ \A i \in 1..N : hist[i].k = hist[1].k
      /\ \A i, j \in 1..N : i /= j => hist[i].name /= hist[j].name
      /\ hist[1].k >= 0
      /\ hist[1].k < N )
    => ArchivesIn(backupDir) = { hist[i].name : i \in (N - hist[1].k + 1) .. N }

\* the free space the guard saw was below the threshold
SpaceLow == free /= NoFree /\ free < cfg["min_free_space_gb"] * GiB

\* C4: a run creates an archive only if the guard returned true and the
\* source exists; with free space below the threshold, or without the
\* source, the run exits 1, backup_files is as it was and no pruner ran.
C4_NoArchiveWithoutSpaceAndSource ==
    /\ newArchive /= NoName => (~SpaceLow /\ spaceOk = "true" /\ srcOk = "true")
    /\ (SpaceLow \/ srcOk = "false") =>
          /\ pc = "Error"
          /\ exitCode = 1
          /\ backupDir = pre
          /\ calls = << >>
          /\ newArchive = NoName

\* a run was refused for lack of space, on a root that holds an archive
C4_Witness ==
    /\ SpaceLow
    /\ pc = "Error"
    /\ ArchivesIn(backupDir) /= {}

PrunersInOrder(n) ==
    /\ Len(calls) = n
    /\ n >= 1 => /\ calls[1].dir = "backup_files"
                 /\ calls[1].extension = TarGz
                 /\ calls[1].max_files = cfg["max_backups"]
    /\ n >= 2 => /\ calls[2].dir = "logs"
                 /\ calls[2].extension = DotLog
                 /\ calls[2].max_files = cfg["max_logs"]

\* C9: once the archive is created the run makes both pruner calls, the
\* archives first and the logs second, whatever error either one logs, and
\* then exits 0: it never ends in the error exit.
C9_PrunersNonFatal ==
    /\ [](pc = "PrunedBackups" => PrunersInOrder(1))
    /\ [](pc \in {"Pruned", "Done"} => PrunersInOrder(2))
    /\ [](pc = "Done" => exitCode = 0)
    /\ [](pc = "Error" => newArchive = NoName)
    /\ [][pc = "Archived" => pc' = "PrunedBackups"]_vars
    /\ [][pc = "PrunedBackups" => pc' = "Pruned"]_vars
    /\ [][pc = "Pruned" => (pc' = "Done" /\ exitCode' = 0)]_vars

\* a run exited 0 although both pruner calls logged an error
C9_Witness ==
    /\ pc = "Done"
    /\ exitCode = 0
    /\ Len(calls) = 2
    /\ calls[1].error
    /\ calls[2].error

\* C10: when a run exits 0, the archive it created is in backup_files.
C10_NewArchiveKept ==
    pc = "Done" => newArchive \in ArchivesIn(backupDir)

----------------------------------------------------------------------------
\* Properties of _get_distribution (SpecDistro)

HasIdLine == osrelease.exists /\ FirstIdLine(osrelease.lines) /= << >>

\* the call came back with a value
Returned == detected /= NotDetected /\ detected \notin Raises

\* the ID field as written: what follows ID= on the first such line, without
\* the whitespace that ends the line
IdField ==
    LET line == FirstIdLine(osrelease.lines)
    IN  rstrip(SubSeq(line, 4, Len(line)), Whitespace)

\* the value of the ID field: the field up to a further "=", if it has one
IdValue ==
    LET eq == IndexOf(IdField, "=")
    IN  IF eq = 0 THEN IdField ELSE SubSeq(IdField, 1, eq - 1)

ToLower(c) == IF c = "U" THEN "u" ELSE c
Lowered(s) == [i \in 1..Len(s) |-> ToLower(s[i])]
Quotes == {"\""}

\* C6: _get_distribution never fails, for every content of the resource: it
\* returns "unknown" without the resource or without an ID field, and
\* otherwise the value of the ID field lowercased and with the quotes around
\* it removed.
C6_LowercasedUnquoted ==
    detected /= NotDetected =>
        /\ Returned
        /\ IF HasIdLine THEN detected = Lowered(strip(IdValue, Quotes))
           ELSE detected = Unknown

----------------------------------------------------------------------------
\* Properties of the update script (SpecUpdate)

Supported == {"debian", "ubuntu", "linuxmint", "fedora", "centos", "rhel"}

\* the sequence of a family
FamilySequence ==
    IF distrib_id \in {"debian", "ubuntu", "linuxmint"}
    THEN << <<"apt", "update">>,
            IF full_upgrade THEN <<"apt", "full-upgrade", "-y">>
                            ELSE <<"apt", "upgrade", "-y">> >>
         \o (IF wantClean
             THEN << <<"apt", "autoremove", "-y">>, <<"apt", "clean">>,
                     <<"rm", "-rf", "/var/lib/apt/lists/*">> >>
             ELSE << >>)
    ELSE IF distrib_id = "fedora"
    THEN << <<"dnf", "upgrade", "-y">> >>
         \o (IF wantClean
             THEN << <<"dnf", "autoremove", "-y">>, <<"dnf", "clean", "all">> >>
             ELSE << >>)
    ELSE << <<"yum", "update", "-y">> >>
         \o (IF wantClean THEN << <<"yum", "clean", "all">> >> ELSE << >>)

AllOk == \A i \in 1..Len(outcomes) : outcomes[i] = "ok"

\* C7: for a supported id the commands issued are a prefix of the family's
\* sequence, only the last of them may have failed, run ends at a failure,
\* and the exit code is 0 iff the whole sequence was issued and succeeded.
C7_PrefixOfFamilySequence ==
    distrib_id \in Supported =>
        /\ Len(issued) <= Len(FamilySequence)
        /\ issued = SubSeq(FamilySequence, 1, Len(issued))
        /\ Len(outcomes) = Len(issued)
        /\ \A i \in 1..(Len(outcomes) - 1) : outcomes[i] = "ok"
        /\ ~AllOk => (upos = "returned" /\ uexit = 1)
        /\ upos = "returned" => (uexit = 0 <=> (issued = FamilySequence /\ AllOk))
        /\ upos = "returned" => uexit \in {0, 1}

\* a full upgrade with cleaning on an apt host stopped at the failing clean
C7_Witness ==
    /\ distrib_id = "ubuntu"
    /\ full_upgrade
    /\ wantClean
    /\ upos = "returned"
    /\ uexit = 1
    /\ Len(issued) = 4
    /\ issued[2] = <<"apt", "full-upgrade", "-y">>
    /\ outcomes[4] = "nonzero"

\* C8: for an id outside the supported ones run issues no command and the
\* script exits 1.
C8_UnsupportedIssuesNothing ==
    distrib_id \notin Supported =>
        /\ issued = << >>
        /\ upos /= "running"
        /\ upos = "returned" => uexit = 1

\* run returned for arch
C8_Witness ==
    /\ distrib_id = "arch"
    /\ upos = "returned"
    /\ uexit = 1
    /\ issued = << >>

====
